---- MODULE Spec2Model ----
(***************************************************************************)
(* captcha-ocr: the four programs of the repository as one state machine.  *)
(*   "cs"       public/extension/content-script.js  (crop overlay)         *)
(*   "panel"    webview.js with the extension host extension.js            *)
(*   "popup"    popup.js of the browser extension                          *)
(*   "component" components/captcha-solver.tsx                             *)
(*   "pipeline" the per-pixel loops of drawToCanvas (captcha-solver.tsx)   *)
(*              and of cropToDataUrl (webview.js)                          *)
(*   "response" what callOcrSpace (extension.js), the try block of the     *)
(*              popup's OCR handler and runOcr's confidence make of one    *)
(*              reply of their backend                                     *)
(* The programs run in separate execution contexts; `variant' says which   *)
(* one a behaviour follows, the variables of the others keep their initial *)
(* values.                                                                 *)
(***************************************************************************)
EXTENDS Integers, Sequences, FiniteSets, TLC

VARIABLES
  variant,      \* which program this behaviour runs
  \* ---- content-script.js
  overlay,      \* overlay !== null
  domOverlays,  \* number of overlay elements attached to documentElement
  listeners,    \* window mousemove/mouseup/keydown listeners registered
  box,          \* box.style {left, top, width, height}, or NoBox when box === null
  csStartX, csStartY, \* startX, startY of the content script
  active,
  dpr,          \* window.devicePixelRatio
  sent,         \* CROP_DONE messages handed to chrome.runtime.sendMessage
  startCrops,   \* START_CROP messages received so far
  released,     \* getBoxRect() of the last mouseup that ended a drag (history)
  \* ---- pixel loops
  px,           \* one source pixel <<r, g, b, a>> after scaling
  config,       \* [grayscale, invert, thresholdEnabled, threshold, scale]
  outComponent, \* the pixel drawToCanvas leaves on the canvas
  outPanel,     \* the pixel cropToDataUrl leaves on the scaled canvas
  inverted,     \* the pixel after one and after two runs of the invert loop
  \* ---- webview.js (editor panel) and extension.js (extension host)
  hasImage,
  drawInfo,     \* canvas._drawInfo, or NoInfo
  isDragging,
  startX, startY, endX, endY,
  thr, scale,   \* values of the two range inputs
  ocrTimer,     \* handle held by ocrTimer, 0 for null
  timers,       \* pending setTimeout callbacks [id, cause, thr, scale, reset]
  btnOcrDisabled, btnResetDisabled, fileInputDisabled, btnCopyDisabled,
  output, confEl, durEl,
  pendingLoads, \* createImageBitmap promises not yet resolved (image sizes)
  toHost,       \* run-ocr messages posted and not yet answered by the host
  toWebview,    \* ocr-result / ocr-error messages on their way to the webview
  posted,       \* the last step posted a run-ocr message (history)
  userEvents,   \* user events handled so far
  \* ---- popup.js
  popCanvas,    \* <<canvas.width, canvas.height>>
  imgDataUrl,   \* the cropped image (its source rectangle), or NoImage
  ocrText, elConfidence, elDuration,
  popBtnOCRDisabled, popBtnCopyDisabled,
  pendingCrops, \* CROP_DONE rectangles whose screenshot is not loaded yet
  fetches,      \* OCR requests in flight (the image each one carries)
  startCropSent, \* a START_CROP was sent to the tab (history)
  \* ---- captcha-solver.tsx (config holds its five settings)
  compFile,     \* file, 0 for null
  src, processing, ocring, result, error,
  pendingReads, \* FileReader reads under way
  pendingDraws, \* drawToCanvas runs waiting for img.onload: [src, config]
  canvas,       \* what the canvas shows: BlankCanvas or the run [src, config] drawn last
  processedDataUrl, \* the memoised canvas.toDataURL(), Null before the first recomputation
  recognizing,  \* Tesseract.recognize calls under way (the image each was given)
  \* ---- one backend reply and what each program makes of it
  backendReply, \* the outcome of fetch(endpoint) and of reading its body
  tessData,     \* the outcome of Tesseract.recognize
  outHost,      \* <<callOcrSpace's outcome>>, <<>> before it ran
  outPopup,     \* <<the outcome of the popup's try block>>, <<>> before it ran
  outTess       \* <<the confidence runOcr stores>>, <<>> before it ran

csVars == <<overlay, domOverlays, listeners, box, csStartX, csStartY, active, dpr, sent,
           startCrops, released>>
pixVars == <<px, config, outComponent, outPanel, inverted>>
panelVars == <<hasImage, drawInfo, isDragging, startX, startY, endX, endY, thr, scale,
               ocrTimer, timers, btnOcrDisabled, btnResetDisabled, fileInputDisabled,
               btnCopyDisabled, output, confEl, durEl, pendingLoads, toHost, toWebview,
               posted>>
popupVars == <<popCanvas, imgDataUrl, ocrText, elConfidence, elDuration, popBtnOCRDisabled,
               popBtnCopyDisabled, pendingCrops, fetches, startCropSent>>
compVars == <<compFile, src, processing, ocring, result, error, pendingReads, pendingDraws,
              canvas, processedDataUrl, recognizing>>
respVars == <<backendReply, tessData, outHost, outPopup, outTess>>
vars == <<variant, userEvents, csVars, pixVars, panelVars, popupVars, compVars, respVars>>
notCs == <<userEvents, pixVars, panelVars, popupVars, compVars, respVars>>
notPipeline == <<userEvents, csVars, panelVars, popupVars, compVars, respVars>>
notPanel == <<csVars, pixVars, popupVars, compVars, respVars>>
notPopup == <<csVars, pixVars, panelVars, compVars, respVars>>
notComponent == <<px, outComponent, outPanel, inverted, csVars, panelVars, popupVars, respVars>>
notResponse == <<userEvents, csVars, pixVars, panelVars, popupVars, compVars>>

Min(a, b) == IF a <= b THEN a ELSE b
Max(a, b) == IF a >= b THEN a ELSE b
Abs(a) == IF a >= 0 THEN a ELSE 0 - a

(***************************************************************************)
(* Bounds                                                                  *)
(***************************************************************************)
MaxStartCrop == 2

\* pointer positions (clientX, clientY) the overlay is exercised with
CsPoints == {<<1, 1>>, <<2, 4>>, <<4, 4>>}
\* window.devicePixelRatio in tenths
DprValues == {10, 15, 20}
\* channel values and thresholds the pixel loops are exercised with
ChannelValues == {0, 128, 129, 255}
AlphaValues == {100, 255}
ThresholdValues == {0, 128, 129, 160}

\* user events (file, pointer, slider, button, incoming CROP_DONE) handled in
\* one behaviour of the panel, the popup and the component
MaxUserEvents == 3
MaxPopupEvents == 5
MaxComponentEvents == 3
\* canvas.width and canvas.height after drawImageToCanvas
CanvasW == 8
CanvasH == 4
\* bitmap sizes <<width, height>>; the second is drawn 0 pixels wide
ImageSizes == {<<8, 4>>, <<1, 8>>}
\* pointer positions in canvas pixels (clientToCanvas)
PanelPoints == {<<1, 1>>, <<2, 3>>, <<4, 3>>}
ThrValues == {128, 160}
ScaleValues == {1, 2}
DurationValues == {7}
CompScaleValues == {2}
CompFiles == {1, 2}

Pixels == {<<r, g, b, a>> : r \in ChannelValues, g \in ChannelValues,
                            b \in ChannelValues, a \in AlphaValues}
Configs == [grayscale : BOOLEAN, invert : BOOLEAN, thresholdEnabled : BOOLEAN,
            threshold : ThresholdValues, scale : CompScaleValues]
DefaultPixel == <<0, 0, 0, 255>>
\* useState defaults of captcha-solver.tsx
DefaultConfig == [grayscale |-> TRUE, invert |-> FALSE, thresholdEnabled |-> TRUE,
                  threshold |-> 160, scale |-> 2]

(***************************************************************************)
(* content-script.js                                                       *)
(***************************************************************************)
NoBox == [null |-> TRUE]

\* a CSS length as the handler writes it: n + "px"
Px(n) == <<n, "px">>
\* Number.parseFloat(s) || 0 of such a length
ParseFloatOr0(s) == s[1]

\* the style of the freshly created box (createOverlay)
NewBox == [left |-> Px(0), top |-> Px(0), width |-> Px(0), height |-> Px(0)]

\* updateBox(x, y, w, h): no-op when box is null; a negative width or height
\* is not a valid CSS value and leaves the property as it was
updateBox(b, x, y, w, h) ==
  IF b = NoBox THEN b
  ELSE [left |-> Px(x), top |-> Px(y),
        width |-> IF w >= 0 THEN Px(w) ELSE b.width,
        height |-> IF h >= 0 THEN Px(h) ELSE b.height]

getBoxRect(b) ==
  IF b = NoBox THEN [x |-> 0, y |-> 0, w |-> 0, h |-> 0]
  ELSE [x |-> ParseFloatOr0(b.left), y |-> ParseFloatOr0(b.top),
        w |-> ParseFloatOr0(b.width), h |-> ParseFloatOr0(b.height)]

\* fault: the width and height are the signed differences
MoveRectNoAbs(sx, sy, ex, ey) ==
  [x |-> Min(sx, ex), y |-> Min(sy, ey), w |-> ex - sx, h |-> ey - sy]

\* the rectangle onMouseMove hands to updateBox
MoveRect(sx, sy, ex, ey) ==
  [x |-> Min(sx, ex), y |-> Min(sy, ey), w |-> Abs(ex - sx), h |-> Abs(ey - sy)]

\* removeOverlay(): primed values of everything it touches
removeOverlay ==
  /\ overlay' = FALSE
  /\ domOverlays' = IF overlay THEN domOverlays - 1 ELSE domOverlays
  /\ listeners' = IF overlay THEN FALSE ELSE listeners
  /\ box' = NoBox
  /\ active' = FALSE

\* fault: createOverlay without `if (overlay) removeOverlay()`
createOverlayKeepsOld ==
  /\ overlay' = TRUE
  /\ domOverlays' = domOverlays + 1
  /\ listeners' = TRUE
  /\ box' = NewBox
  /\ UNCHANGED active

\* chrome.runtime.onMessage: START_CROP -> createOverlay()
createOverlay ==
  /\ overlay' = TRUE
  /\ domOverlays' = (IF overlay THEN domOverlays - 1 ELSE domOverlays) + 1
  /\ listeners' = TRUE
  /\ box' = NewBox
  /\ active' = FALSE

OnStartCrop ==
  /\ variant = "cs"
  /\ startCrops < MaxStartCrop
  /\ startCrops' = startCrops + 1
  /\ createOverlay
  /\ UNCHANGED <<variant, csStartX, csStartY, dpr, sent, released, notCs>>

\* overlay mousedown listener
onMouseDown(p, button) ==
  /\ variant = "cs"
  /\ overlay
  /\ IF button # 0
       THEN UNCHANGED <<active, csStartX, csStartY, box>>
       ELSE /\ active' = TRUE
            /\ csStartX' = p[1]
            /\ csStartY' = p[2]
            /\ box' = updateBox(box, p[1], p[2], 0, 0)
  /\ UNCHANGED <<variant, overlay, domOverlays, listeners, dpr, sent, startCrops, released,
                 notCs>>

\* window mousemove listener
onMouseMove(p) ==
  /\ variant = "cs"
  /\ listeners
  /\ IF ~active
       THEN UNCHANGED box
       ELSE LET r == MoveRect(csStartX, csStartY, p[1], p[2])
            IN box' = updateBox(box, r.x, r.y, r.w, r.h)
  /\ UNCHANGED <<variant, overlay, domOverlays, listeners, csStartX, csStartY, active,
                 dpr, sent, startCrops, released, notCs>>

\* fault: onMouseUp sends CROP_DONE and leaves the overlay in place
onMouseUpKeepsOverlay ==
  /\ variant = "cs"
  /\ listeners
  /\ IF ~active
       THEN UNCHANGED <<overlay, domOverlays, listeners, box, active, sent, released>>
       ELSE LET rect == getBoxRect(box)
            IN /\ released' = rect
               /\ IF rect.w < 2 \/ rect.h < 2
                    THEN removeOverlay /\ UNCHANGED sent
                    ELSE /\ sent' = Append(sent, [type |-> "CROP_DONE",
                                                  rect |-> [x |-> rect.x, y |-> rect.y,
                                                            w |-> rect.w, h |-> rect.h,
                                                            dpr |-> dpr]])
                         /\ active' = FALSE
                         /\ UNCHANGED <<overlay, domOverlays, listeners, box>>
  /\ UNCHANGED <<variant, csStartX, csStartY, dpr, startCrops, notCs>>

\* fault: onMouseUp without the size check
onMouseUpNoSizeCheck ==
  /\ variant = "cs"
  /\ listeners
  /\ IF ~active
       THEN UNCHANGED <<overlay, domOverlays, listeners, box, active, sent, released>>
       ELSE LET rect == getBoxRect(box)
            IN /\ released' = rect
               /\ sent' = Append(sent, [type |-> "CROP_DONE",
                                        rect |-> [x |-> rect.x, y |-> rect.y,
                                                  w |-> rect.w, h |-> rect.h,
                                                  dpr |-> dpr]])
               /\ removeOverlay
  /\ UNCHANGED <<variant, csStartX, csStartY, dpr, startCrops, notCs>>

\* window mouseup listener (the event's own coordinates are not read)
onMouseUp ==
  /\ variant = "cs"
  /\ listeners
  /\ IF ~active
       THEN UNCHANGED <<overlay, domOverlays, listeners, box, active, sent, released>>
       ELSE LET rect == getBoxRect(box)
            IN /\ released' = rect
               /\ IF rect.w < 2 \/ rect.h < 2
                    THEN removeOverlay /\ UNCHANGED sent
                    ELSE /\ sent' = Append(sent, [type |-> "CROP_DONE",
                                                  rect |-> [x |-> rect.x, y |-> rect.y,
                                                            w |-> rect.w, h |-> rect.h,
                                                            dpr |-> dpr]])
                         /\ removeOverlay
  /\ UNCHANGED <<variant, csStartX, csStartY, dpr, startCrops, notCs>>

\* fault: Escape ends the drag but leaves the overlay and its listeners
onKeyDownKeepsOverlay(key) ==
  /\ variant = "cs"
  /\ listeners
  /\ IF key = "Escape"
       THEN active' = FALSE /\ UNCHANGED <<overlay, domOverlays, listeners, box>>
       ELSE UNCHANGED <<overlay, domOverlays, listeners, box, active>>
  /\ UNCHANGED <<variant, csStartX, csStartY, dpr, sent, startCrops, released, notCs>>

\* window keydown listener
onKeyDown(key) ==
  /\ variant = "cs"
  /\ listeners
  /\ IF key = "Escape"
       THEN removeOverlay
       ELSE UNCHANGED <<overlay, domOverlays, listeners, box, active>>
  /\ UNCHANGED <<variant, csStartX, csStartY, dpr, sent, startCrops, released, notCs>>

NextCs ==
  \/ OnStartCrop
  \/ \E p \in CsPoints, button \in {0, 2} : onMouseDown(p, button)
  \/ \E p \in CsPoints : onMouseMove(p)
  \/ onMouseUp
  \/ \E key \in {"Escape", "a"} : onKeyDown(key)

(***************************************************************************)
(* Pixel loops                                                             *)
(***************************************************************************)
\* 0.299 * r + 0.587 * g + 0.114 * b is evaluated in IEEE-754 doubles.  The
\* value is kept in units of 1/10000; for the triples listed here the double
\* sum is one ulp below the exact value (128,128,128 gives 127.99999999999999).
DoubleRoundsBelow == {<<128, 128, 128>>}

LumScaled(r, g, b) ==
  10 * (299 * r + 587 * g + 114 * b) - (IF <<r, g, b>> \in DoubleRoundsBelow THEN 1 ELSE 0)

\* Math.round of the sum (round half up)
RoundLum(r, g, b) == (LumScaled(r, g, b) + 5000) \div 10000

\* drawToCanvas, img.onload: the grayscale, threshold and invert loops on one pixel
GrayscaleStage(p, cfg) ==
  IF cfg.grayscale \/ cfg.thresholdEnabled
    THEN LET l == RoundLum(p[1], p[2], p[3]) IN <<l, l, l, p[4]>>
    ELSE p

ThresholdStage(p, cfg) ==
  IF cfg.thresholdEnabled
    THEN LET bin == IF p[1] > cfg.threshold THEN 255 ELSE 0 IN <<bin, bin, bin, p[4]>>
    ELSE p

\* the invert loop writing an opaque alpha
InvertStageOpaque(p, cfg) ==
  IF cfg.invert THEN <<255 - p[1], 255 - p[2], 255 - p[3], 255>> ELSE p

InvertStage(p, cfg) ==
  IF cfg.invert THEN <<255 - p[1], 255 - p[2], 255 - p[3], p[4]>> ELSE p

\* the three loops with invert ahead of threshold
drawToCanvasPixelInvertFirst(p, cfg) ==
  ThresholdStage(InvertStage(GrayscaleStage(p, cfg), cfg), cfg)

drawToCanvasPixel(p, cfg) == InvertStage(ThresholdStage(GrayscaleStage(p, cfg), cfg), cfg)

\* cropToDataUrl: the grayscale + threshold loop on one pixel
cropToDataUrlPixel(p, threshold) ==
  LET v == IF LumScaled(p[1], p[2], p[3]) >= 10000 * threshold THEN 255 ELSE 0
  IN <<v, v, v, 255>>

NoPixel == <<>>

ApplyDrawToCanvas ==
  /\ variant = "pipeline"
  /\ outComponent' = drawToCanvasPixel(px, config)
  /\ UNCHANGED <<variant, px, config, outPanel, inverted, notPipeline>>

ApplyCropToDataUrl ==
  /\ variant = "pipeline"
  /\ outPanel' = cropToDataUrlPixel(px, config.threshold)
  /\ UNCHANGED <<variant, px, config, outComponent, inverted, notPipeline>>

\* the invert loop run on the buffer, and run again on what it left
ApplyInvertTwice ==
  /\ variant = "pipeline"
  /\ inverted = <<>>
  /\ inverted' = <<InvertStage(px, config), InvertStage(InvertStage(px, config), config)>>
  /\ UNCHANGED <<variant, px, config, outComponent, outPanel, notPipeline>>

NextPipeline == ApplyDrawToCanvas \/ ApplyCropToDataUrl \/ ApplyInvertTwice

(***************************************************************************)
(* webview.js: the editor panel                                            *)
(***************************************************************************)
NoInfo == [none |-> TRUE]
NoRect == [null |-> TRUE]

\* drawImageToCanvas: fit the bitmap into the canvas, keeping its aspect
\* (scale = min(canvas.width / bmp.width, canvas.height / bmp.height))
FitInfo(img) ==
  LET iw == img[1]
      ih == img[2]
      byWidth == CanvasW * ih <= CanvasH * iw
      drawW == IF byWidth THEN CanvasW ELSE (iw * CanvasH) \div ih
      drawH == IF byWidth THEN (ih * CanvasW) \div iw ELSE CanvasH
  IN [offsetX |-> (CanvasW - drawW) \div 2, offsetY |-> (CanvasH - drawH) \div 2,
      drawW |-> drawW, drawH |-> drawH]

withinImage(info, x, y) ==
  IF info = NoInfo THEN FALSE
  ELSE /\ x >= info.offsetX /\ x <= info.offsetX + info.drawW
       /\ y >= info.offsetY /\ y <= info.offsetY + info.drawH

getThresholdVal(v) == Max(0, Min(255, v))
getScaleVal(v) == Max(1, Min(4, v))

normalizedRect(sx, sy, ex, ey) ==
  LET w == Abs(ex - sx)
      h == Abs(ey - sy)
  IN IF w = 0 \/ h = 0 THEN NoRect
     ELSE [x |-> Min(sx, ex), y |-> Min(sy, ey), w |-> w, h |-> h]

\* selectFullImageRegion: the <<startX, startY, endX, endY>> it leaves
selectFullImageRegion(info, cur) ==
  IF info = NoInfo THEN cur
  ELSE <<info.offsetX, info.offsetY, info.offsetX + info.drawW, info.offsetY + info.drawH>>

\* cropToDataUrl: what determines the encoded image (the pixels of the loop
\* are cropToDataUrlPixel)
cropToDataUrl(sel, threshold, sc) ==
  LET w == Max(1, Abs(sel[3] - sel[1]))
      h == Max(1, Abs(sel[4] - sel[2]))
  IN [x |-> Min(sel[1], sel[3]), y |-> Min(sel[2], sel[4]), w |-> w, h |-> h,
      scaledW |-> Max(1, w * sc), scaledH |-> Max(1, h * sc), threshold |-> threshold]

\* history: a message posted before the selection or a slider changed
MarkStale(q, changed) ==
  IF changed THEN [i \in 1..Len(q) |-> [q[i] EXCEPT !.stale = TRUE]] ELSE q

CurrentSel == <<startX, startY, endX, endY>>

RemoveAt(q, i) == SubSeq(q, 1, i - 1) \o SubSeq(q, i + 1, Len(q))

\* one more user event, within the budget of the behaviour
EventBudget ==
  CASE variant = "popup" -> MaxPopupEvents
    [] variant = "component" -> MaxComponentEvents
    [] OTHER -> MaxUserEvents

UserEvent ==
  /\ userEvents < EventBudget
  /\ userEvents' = userEvents + 1

FreshTimerId(kept) == CHOOSE n \in 1..(Cardinality(kept) + 1) : \A t \in kept : t.id # n

\* fault: scheduleOcr without the clearTimeout
scheduleOcrNoClear(has, cause) ==
  IF ~has THEN UNCHANGED <<ocrTimer, timers>>
  ELSE LET id == FreshTimerId(timers)
       IN /\ timers' = timers \cup {[id |-> id, cause |-> cause, thr |-> thr', scale |-> scale',
                                    reset |-> FALSE]}
          /\ ocrTimer' = id

\* scheduleOcr(): clearTimeout(ocrTimer); ocrTimer = setTimeout(runOcrNow, 450)
\* (cause, thr and scale of a timer are history: the event that set it and the
\* slider values after that event)
scheduleOcr(has, cause) ==
  IF ~has THEN UNCHANGED <<ocrTimer, timers>>
  ELSE LET kept == {t \in timers : t.id # ocrTimer}
           id == FreshTimerId(kept)
       IN /\ timers' = kept \cup {[id |-> id, cause |-> cause, thr |-> thr', scale |-> scale',
                                    reset |-> FALSE]}
          /\ ocrTimer' = id

setBusy(b) ==
  /\ btnOcrDisabled' = b
  /\ btnResetDisabled' = b
  /\ fileInputDisabled' = b

\* fault: runOcrNow without the fallback to the full image region
runOcrNowNoFallback(cause) ==
  IF ~hasImage
    THEN /\ posted' = FALSE
         /\ UNCHANGED <<startX, startY, endX, endY, btnOcrDisabled, btnResetDisabled,
                        fileInputDisabled, toHost, toWebview>>
    ELSE LET thrValNum == getThresholdVal(thr)
             scaleNum == getScaleVal(scale)
             cropUrl == cropToDataUrl(CurrentSel, thrValNum, scaleNum)
         IN /\ UNCHANGED <<startX, startY, endX, endY, toWebview>>
            /\ setBusy(TRUE)
            /\ toHost' = Append(toHost, [type |-> "run-ocr", dataUrl |-> cropUrl,
                                         threshold |-> thrValNum, scale |-> scaleNum,
                                         stale |-> FALSE, cause |-> cause])
            /\ posted' = TRUE

\* runOcrNow(); cause (history) is what made it run
runOcrNow(cause) ==
  IF ~hasImage
    THEN /\ posted' = FALSE
         /\ UNCHANGED <<startX, startY, endX, endY, btnOcrDisabled, btnResetDisabled,
                        fileInputDisabled, toHost, toWebview>>
    ELSE LET rect == normalizedRect(startX, startY, endX, endY)
             sel == IF rect = NoRect \/ rect.w < 2 \/ rect.h < 2
                      THEN selectFullImageRegion(drawInfo, CurrentSel)
                      ELSE CurrentSel
             thrValNum == getThresholdVal(thr)
             scaleNum == getScaleVal(scale)
             cropUrl == cropToDataUrl(sel, thrValNum, scaleNum)
         IN /\ startX' = sel[1] /\ startY' = sel[2] /\ endX' = sel[3] /\ endY' = sel[4]
            /\ setBusy(TRUE)
            /\ toHost' = Append(MarkStale(toHost, sel # CurrentSel),
                                [type |-> "run-ocr", dataUrl |-> cropUrl,
                                 threshold |-> thrValNum, scale |-> scaleNum,
                                 stale |-> FALSE, cause |-> cause])
            /\ toWebview' = MarkStale(toWebview, sel # CurrentSel)
            /\ posted' = TRUE

\* fileInput change / canvas drop / window paste: loadImageFromFile up to its await
LoadImageFromFile(via, img) ==
  /\ variant = "panel"
  /\ UserEvent
  /\ via = "change" => ~fileInputDisabled
  /\ pendingLoads' = Append(pendingLoads, img)
  /\ posted' = FALSE
  /\ UNCHANGED <<variant, hasImage, drawInfo, isDragging, startX, startY, endX, endY, thr,
                 scale, ocrTimer, timers, btnOcrDisabled, btnResetDisabled,
                 fileInputDisabled, btnCopyDisabled, output, confEl, durEl, toHost,
                 toWebview, notPanel>>

\* loadImageFromFile after createImageBitmap resolved
ImageBitmapResolved(i) ==
  /\ variant = "panel"
  /\ UNCHANGED userEvents
  /\ i \in 1..Len(pendingLoads)
  /\ LET info == FitInfo(pendingLoads[i])
         sel == selectFullImageRegion(info, CurrentSel)
     IN /\ drawInfo' = info
        /\ startX' = sel[1] /\ startY' = sel[2] /\ endX' = sel[3] /\ endY' = sel[4]
        /\ toHost' = MarkStale(toHost, sel # CurrentSel)
        /\ toWebview' = MarkStale(toWebview, sel # CurrentSel)
  /\ pendingLoads' = RemoveAt(pendingLoads, i)
  /\ hasImage' = TRUE
  /\ btnResetDisabled' = FALSE
  /\ btnOcrDisabled' = FALSE
  /\ posted' = FALSE
  /\ UNCHANGED <<variant, isDragging, thr, scale, fileInputDisabled, btnCopyDisabled,
                 output, confEl, durEl, notPanel>>
  /\ scheduleOcr(TRUE, "load")

\* createImageBitmap rejected: the async function ends there
ImageBitmapRejected(i) ==
  /\ variant = "panel"
  /\ UNCHANGED userEvents
  /\ i \in 1..Len(pendingLoads)
  /\ pendingLoads' = RemoveAt(pendingLoads, i)
  /\ posted' = FALSE
  /\ UNCHANGED <<variant, hasImage, drawInfo, isDragging, startX, startY, endX, endY, thr,
                 scale, ocrTimer, timers, btnOcrDisabled, btnResetDisabled,
                 fileInputDisabled, btnCopyDisabled, output, confEl, durEl, toHost,
                 toWebview, notPanel>>

\* fault: the mousedown listener without the withinImage check
CanvasMouseDownAnywhere(p) ==
  /\ variant = "panel"
  /\ UserEvent
  /\ posted' = FALSE
  /\ IF ~hasImage
       THEN UNCHANGED <<isDragging, startX, startY, endX, endY, toHost, toWebview>>
       ELSE /\ isDragging' = TRUE
            /\ startX' = p[1] /\ endX' = p[1]
            /\ startY' = p[2] /\ endY' = p[2]
            /\ toHost' = MarkStale(toHost, <<p[1], p[2], p[1], p[2]>> # CurrentSel)
            /\ toWebview' = MarkStale(toWebview, <<p[1], p[2], p[1], p[2]>> # CurrentSel)
  /\ UNCHANGED <<variant, hasImage, drawInfo, thr, scale, ocrTimer, timers, btnOcrDisabled,
                 btnResetDisabled, fileInputDisabled, btnCopyDisabled, output, confEl,
                 durEl, pendingLoads, notPanel>>

\* canvas mousedown listener; p is clientToCanvas(e)
CanvasMouseDown(p) ==
  /\ variant = "panel"
  /\ UserEvent
  /\ posted' = FALSE
  /\ IF ~hasImage \/ ~withinImage(drawInfo, p[1], p[2])
       THEN UNCHANGED <<isDragging, startX, startY, endX, endY, toHost, toWebview>>
       ELSE /\ isDragging' = TRUE
            /\ startX' = p[1] /\ endX' = p[1]
            /\ startY' = p[2] /\ endY' = p[2]
            /\ toHost' = MarkStale(toHost, <<p[1], p[2], p[1], p[2]>> # CurrentSel)
            /\ toWebview' = MarkStale(toWebview, <<p[1], p[2], p[1], p[2]>> # CurrentSel)
  /\ UNCHANGED <<variant, hasImage, drawInfo, thr, scale, ocrTimer, timers, btnOcrDisabled,
                 btnResetDisabled, fileInputDisabled, btnCopyDisabled, output, confEl,
                 durEl, pendingLoads, notPanel>>

\* canvas mousemove listener
CanvasMouseMove(p) ==
  /\ variant = "panel"
  /\ UserEvent
  /\ posted' = FALSE
  /\ IF ~isDragging
       THEN UNCHANGED <<endX, endY, toHost, toWebview>>
       ELSE /\ endX' = p[1]
            /\ endY' = p[2]
            /\ toHost' = MarkStale(toHost, <<p[1], p[2]>> # <<endX, endY>>)
            /\ toWebview' = MarkStale(toWebview, <<p[1], p[2]>> # <<endX, endY>>)
  /\ UNCHANGED <<variant, hasImage, drawInfo, isDragging, startX, startY, thr, scale,
                 ocrTimer, timers, btnOcrDisabled, btnResetDisabled, fileInputDisabled,
                 btnCopyDisabled, output, confEl, durEl, pendingLoads, notPanel>>

\* history: what the debounce timer set by a mouseup stands for
CropCause(sx, sy, ex, ey) ==
  IF Abs(ex - sx) < 2 \/ Abs(ey - sy) < 2 THEN "cropDegenerate" ELSE "crop"

\* fault: the mouseup listener without its scheduleOcr()
WindowMouseUpNoSchedule(p) ==
  /\ variant = "panel"
  /\ UserEvent
  /\ posted' = FALSE
  /\ UNCHANGED <<variant, hasImage, drawInfo, startX, startY, thr, scale, btnOcrDisabled,
                 btnResetDisabled, fileInputDisabled, btnCopyDisabled, output, confEl,
                 durEl, pendingLoads, ocrTimer, timers, notPanel>>
  /\ IF ~isDragging
       THEN UNCHANGED <<isDragging, endX, endY, toHost, toWebview>>
       ELSE /\ endX' = p[1]
            /\ endY' = p[2]
            /\ isDragging' = FALSE
            /\ toHost' = MarkStale(toHost, <<p[1], p[2]>> # <<endX, endY>>)
            /\ toWebview' = MarkStale(toWebview, <<p[1], p[2]>> # <<endX, endY>>)

\* window mouseup listener
WindowMouseUp(p) ==
  /\ variant = "panel"
  /\ UserEvent
  /\ posted' = FALSE
  /\ UNCHANGED <<variant, hasImage, drawInfo, startX, startY, thr, scale, btnOcrDisabled,
                 btnResetDisabled, fileInputDisabled, btnCopyDisabled, output, confEl,
                 durEl, pendingLoads, notPanel>>
  /\ IF ~isDragging
       THEN UNCHANGED <<isDragging, endX, endY, ocrTimer, timers, toHost, toWebview>>
       ELSE /\ endX' = p[1]
            /\ endY' = p[2]
            /\ isDragging' = FALSE
            /\ toHost' = MarkStale(toHost, <<p[1], p[2]>> # <<endX, endY>>)
            /\ toWebview' = MarkStale(toWebview, <<p[1], p[2]>> # <<endX, endY>>)
            /\ scheduleOcr(hasImage, CropCause(startX, startY, p[1], p[2]))

Dash == [text |-> "-", num |-> <<>>]

\* btnReset click listener (a disabled button gets no click)
BtnResetClick ==
  /\ variant = "panel"
  /\ UserEvent
  /\ ~btnResetDisabled
  /\ posted' = FALSE
  /\ IF ~hasImage
       THEN UNCHANGED <<startX, startY, endX, endY, output, confEl, durEl, toHost, toWebview>>
       ELSE /\ startX' = 0 /\ startY' = 0 /\ endX' = 0 /\ endY' = 0
            /\ output' = <<>>
            /\ confEl' = Dash
            /\ durEl' = Dash
            /\ toHost' = MarkStale(toHost, <<0, 0, 0, 0>> # CurrentSel)
            /\ toWebview' = MarkStale(toWebview, <<0, 0, 0, 0>> # CurrentSel)
  \* history: the pending callbacks were armed before this Reset
  /\ timers' = IF hasImage THEN {[t EXCEPT !.reset = TRUE] : t \in timers} ELSE timers
  /\ UNCHANGED <<variant, hasImage, drawInfo, isDragging, thr, scale, ocrTimer,
                 btnOcrDisabled, btnResetDisabled, fileInputDisabled, btnCopyDisabled,
                 pendingLoads, notPanel>>

\* thr input listener: the slider moved to v
ThrInput(v) ==
  /\ variant = "panel"
  /\ UserEvent
  /\ v # thr
  /\ thr' = v
  /\ scale' = scale
  /\ scheduleOcr(hasImage, "thr")
  /\ toHost' = MarkStale(toHost, TRUE)
  /\ toWebview' = MarkStale(toWebview, TRUE)
  /\ posted' = FALSE
  /\ UNCHANGED <<variant, hasImage, drawInfo, isDragging, startX, startY, endX, endY,
                 btnOcrDisabled, btnResetDisabled, fileInputDisabled, btnCopyDisabled,
                 output, confEl, durEl, pendingLoads, notPanel>>

\* scale input listener
ScaleInput(v) ==
  /\ variant = "panel"
  /\ UserEvent
  /\ v # scale
  /\ scale' = v
  /\ thr' = thr
  /\ scheduleOcr(hasImage, "scale")
  /\ toHost' = MarkStale(toHost, TRUE)
  /\ toWebview' = MarkStale(toWebview, TRUE)
  /\ posted' = FALSE
  /\ UNCHANGED <<variant, hasImage, drawInfo, isDragging, startX, startY, endX, endY,
                 btnOcrDisabled, btnResetDisabled, fileInputDisabled, btnCopyDisabled,
                 output, confEl, durEl, pendingLoads, notPanel>>

\* btnOcr click listener (a disabled button gets no click)
BtnOcrClick ==
  /\ variant = "panel"
  /\ UserEvent
  /\ ~btnOcrDisabled
  /\ runOcrNow("click")
  /\ UNCHANGED <<variant, hasImage, drawInfo, isDragging, thr, scale, ocrTimer, timers,
                 btnCopyDisabled, output, confEl, durEl, pendingLoads, notPanel>>

\* the setTimeout callback of scheduleOcr fires after its 450 ms
OcrTimerFire(t) ==
  /\ variant = "panel"
  /\ UNCHANGED userEvents
  /\ t \in timers
  /\ timers' = timers \ {t}
  /\ runOcrNow(t.cause)
  /\ UNCHANGED <<variant, hasImage, drawInfo, isDragging, thr, scale, ocrTimer,
                 btnCopyDisabled, output, confEl, durEl, pendingLoads, notPanel>>

(***************************************************************************)
(* extension.js: the extension host                                        *)
(***************************************************************************)
Whitespace == {" ", "\n"}

RECURSIVE TrimStart(_)
TrimStart(s) == IF s # <<>> /\ Head(s) \in Whitespace THEN TrimStart(Tail(s)) ELSE s

RECURSIVE TrimEnd(_)
TrimEnd(s) ==
  IF s # <<>> /\ s[Len(s)] \in Whitespace THEN TrimEnd(SubSeq(s, 1, Len(s) - 1)) ELSE s

\* String.prototype.trim on a text kept as a sequence of characters
Trim(s) == TrimEnd(TrimStart(s))

RECURSIVE SumSeq(_)
SumSeq(s) == IF s = <<>> THEN 0 ELSE Head(s) + SumSeq(Tail(s))

\* the numbers left by WordConfidences.map(Number).filter((v) => !Number.isNaN(v))
NumbersOf(items) ==
  LET keep == SelectSeq(items, LAMBDA c : ~c.nan) IN [i \in 1..Len(keep) |-> keep[i].v]

\* outcomes of fetch(endpoint) and of reading its body
NoErrorMessage == [isArray |-> FALSE, items |-> <<>>]
NoConfidences == [isArray |-> FALSE, items |-> <<>>]
Response(kind, ok, errored, errorMessage, parsedText, wordConfidences, mean) ==
  [kind |-> kind, ok |-> ok, IsErroredOnProcessing |-> errored,
   ErrorMessage |-> errorMessage, ParsedText |-> parsedText,
   WordConfidences |-> wordConfidences, MeanConfidence |-> mean]

TransportFailure == Response("reject", FALSE, FALSE, NoErrorMessage, <<>>, NoConfidences, <<>>)
HttpFailure == Response("json", FALSE, FALSE, NoErrorMessage, <<>>, NoConfidences, <<>>)
BackendFailure ==
  Response("json", TRUE, TRUE, [isArray |-> TRUE, items |-> <<"E1", "E2">>], <<>>,
           NoConfidences, <<>>)
Recognised ==
  Response("json", TRUE, FALSE, NoErrorMessage, <<" ", "A", "B", "\n">>,
           [isArray |-> TRUE,
            items |-> <<[nan |-> FALSE, v |-> 90], [nan |-> FALSE, v |-> 81]>>], <<85>>)
RecognisedBlank == Response("json", TRUE, FALSE, NoErrorMessage, <<" ">>, NoConfidences, <<>>)

Responses == {TransportFailure, HttpFailure, BackendFailure, Recognised, RecognisedBlank}
\* the outcomes the extension host's request is exercised with
HostResponses == {TransportFailure, BackendFailure, Recognised}

\* data.ErrorMessage: absent, a string, or an array of strings
ErrorMessages ==
  {NoErrorMessage, [isArray |-> FALSE, items |-> <<"E1">>], [isArray |-> TRUE, items |-> <<>>],
   [isArray |-> TRUE, items |-> <<"E1">>], [isArray |-> TRUE, items |-> <<"E1", "E2">>]}
\* parsed.WordConfidences: absent, or an array whose entries Number() turns
\* into a number or into NaN
WordConfidenceLists ==
  {NoConfidences, [isArray |-> TRUE, items |-> <<>>],
   [isArray |-> TRUE, items |-> <<[nan |-> FALSE, v |-> 90], [nan |-> FALSE, v |-> 81]>>],
   [isArray |-> TRUE, items |-> <<[nan |-> TRUE, v |-> 0], [nan |-> FALSE, v |-> 81]>>],
   [isArray |-> TRUE, items |-> <<[nan |-> TRUE, v |-> 0]>>]}
\* the replies of the "response" variant: fetch rejects ("reject"), or it
\* resolves with a body that is JSON ("json") or is not ("text")
ResponseInputs ==
  {Response("reject", FALSE, FALSE, NoErrorMessage, <<>>, NoConfidences, <<>>)}
  \cup {Response("text", ok, FALSE, NoErrorMessage, <<>>, NoConfidences, <<>>) : ok \in BOOLEAN}
  \cup {Response("json", ok, errored, em, text, wc, mean) :
          ok \in BOOLEAN, errored \in BOOLEAN, em \in ErrorMessages,
          text \in {<<>>, <<" ", "A", "B", "\n">>}, wc \in WordConfidenceLists,
          mean \in {<<>>, <<85>>}}

\* callOcrSpace with the fallback text in place of the backend's message
callOcrSpaceGenericMessage(resp) ==
  IF resp.kind = "reject"
    THEN [ok |-> FALSE, text |-> <<>>, confidence |-> <<>>, message |-> <<"fetch failed">>]
  ELSE IF ~resp.ok
    THEN [ok |-> FALSE, text |-> <<>>, confidence |-> <<>>,
          message |-> <<"OCR API error: ", "500", " ", "Internal Server Error", " ">>]
  ELSE IF resp.kind = "text"
    THEN [ok |-> FALSE, text |-> <<>>, confidence |-> <<>>,
          message |-> <<"Unexpected token">>]
  ELSE IF resp.IsErroredOnProcessing
    THEN LET em == resp.ErrorMessage
             msg == <<"OCR processing error">>
         IN [ok |-> FALSE, text |-> <<>>, confidence |-> <<>>, message |-> msg]
  ELSE LET wc == resp.WordConfidences
           vals == NumbersOf(wc.items)
           confidence == IF wc.isArray /\ Len(wc.items) > 0 /\ Len(vals) > 0
                           THEN <<SumSeq(vals), Len(vals)>>
                           ELSE <<>>
       IN [ok |-> TRUE, text |-> Trim(resp.ParsedText), confidence |-> confidence,
           message |-> <<>>]

\* callOcrSpace: [ok |-> TRUE, text, confidence] when it returns,
\* [ok |-> FALSE, message] when it throws; confidence <<>> is undefined,
\* <<sum, n>> the mean sum / n
callOcrSpace(resp) ==
  IF resp.kind = "reject"
    THEN [ok |-> FALSE, text |-> <<>>, confidence |-> <<>>, message |-> <<"fetch failed">>]
  ELSE IF ~resp.ok
    THEN [ok |-> FALSE, text |-> <<>>, confidence |-> <<>>,
          message |-> <<"OCR API error: ", "500", " ", "Internal Server Error", " ">>]
  ELSE IF resp.kind = "text"
    THEN [ok |-> FALSE, text |-> <<>>, confidence |-> <<>>,
          message |-> <<"Unexpected token">>]
  ELSE IF resp.IsErroredOnProcessing
    THEN LET em == resp.ErrorMessage
             msg == IF em.isArray
                      THEN (IF em.items = <<>> THEN <<>> ELSE <<em.items[1]>>)
                      ELSE (IF em.items = <<>> THEN <<"OCR processing error">> ELSE em.items)
         IN [ok |-> FALSE, text |-> <<>>, confidence |-> <<>>, message |-> msg]
  ELSE LET wc == resp.WordConfidences
           vals == NumbersOf(wc.items)
           confidence == IF wc.isArray /\ Len(wc.items) > 0 /\ Len(vals) > 0
                           THEN <<SumSeq(vals), Len(vals)>>
                           ELSE <<>>
       IN [ok |-> TRUE, text |-> Trim(resp.ParsedText), confidence |-> confidence,
           message |-> <<>>]

\* webview.onDidReceiveMessage, run-ocr: from the message to the reply, with
\* the outcome of the request in between; requests complete in any order
HostRunOcr(i, resp, durationMs) ==
  /\ variant = "panel"
  /\ UNCHANGED userEvents
  /\ i \in 1..Len(toHost)
  /\ LET msg == toHost[i]
         res == callOcrSpace(resp)
         reply == IF res.ok
                    THEN [type |-> "ocr-result", text |-> res.text,
                          confidence |-> res.confidence, durationMs |-> durationMs,
                          message |-> <<>>, stale |-> msg.stale]
                    \* String(err?.message || err)
                    ELSE [type |-> "ocr-error", text |-> <<>>, confidence |-> <<>>,
                          durationMs |-> 0,
                          message |-> IF res.message = <<>> THEN <<"Error">> ELSE res.message,
                          stale |-> msg.stale]
     IN toWebview' = Append(toWebview, reply)
  /\ toHost' = RemoveAt(toHost, i)
  /\ posted' = FALSE
  /\ UNCHANGED <<variant, hasImage, drawInfo, isDragging, startX, startY, endX, endY, thr,
                 scale, ocrTimer, timers, btnOcrDisabled, btnResetDisabled,
                 fileInputDisabled, btnCopyDisabled, output, confEl, durEl, pendingLoads,
                 notPanel>>

\* fault: the ocr-error branch without its setBusy(false)
WindowMessageErrorStaysBusy ==
  /\ variant = "panel"
  /\ UNCHANGED userEvents
  /\ toWebview # <<>>
  /\ LET msg == Head(toWebview)
     IN IF msg.type = "ocr-result"
          THEN /\ output' = msg.text
               /\ confEl' = IF msg.confidence # <<>>
                              THEN [text |-> "%", num |-> msg.confidence]
                              ELSE [text |-> "n/a", num |-> <<>>]
               /\ durEl' = [text |-> " ms", num |-> <<msg.durationMs>>]
               /\ btnCopyDisabled' = (msg.text = <<>>)
               /\ setBusy(FALSE)
          ELSE /\ output' = <<"Error: ">> \o msg.message
               /\ confEl' = Dash
               /\ durEl' = Dash
               /\ btnCopyDisabled' = TRUE
               /\ UNCHANGED <<btnOcrDisabled, btnResetDisabled, fileInputDisabled>>
  /\ toWebview' = Tail(toWebview)
  /\ posted' = FALSE
  /\ UNCHANGED <<variant, hasImage, drawInfo, isDragging, startX, startY, endX, endY, thr,
                 scale, ocrTimer, timers, pendingLoads, toHost, notPanel>>

\* window message listener of the webview
WindowMessage ==
  /\ variant = "panel"
  /\ UNCHANGED userEvents
  /\ toWebview # <<>>
  /\ LET msg == Head(toWebview)
     IN IF msg.type = "ocr-result"
          THEN /\ output' = msg.text
               /\ confEl' = IF msg.confidence # <<>>
                              THEN [text |-> "%", num |-> msg.confidence]
                              ELSE [text |-> "n/a", num |-> <<>>]
               /\ durEl' = [text |-> " ms", num |-> <<msg.durationMs>>]
               /\ btnCopyDisabled' = (msg.text = <<>>)
               /\ setBusy(FALSE)
          ELSE /\ output' = <<"Error: ">> \o msg.message
               /\ confEl' = Dash
               /\ durEl' = Dash
               /\ btnCopyDisabled' = TRUE
               /\ setBusy(FALSE)
  /\ toWebview' = Tail(toWebview)
  /\ posted' = FALSE
  /\ UNCHANGED <<variant, hasImage, drawInfo, isDragging, startX, startY, endX, endY, thr,
                 scale, ocrTimer, timers, pendingLoads, toHost, notPanel>>

NextPanel ==
  \/ \E via \in {"change", "drop", "paste"}, img \in ImageSizes : LoadImageFromFile(via, img)
  \/ \E i \in 1..Len(pendingLoads) : ImageBitmapResolved(i)
  \/ \E i \in 1..Len(pendingLoads) : ImageBitmapRejected(i)
  \/ \E p \in PanelPoints : CanvasMouseDown(p)
  \/ \E p \in PanelPoints : CanvasMouseMove(p)
  \/ \E p \in PanelPoints : WindowMouseUp(p)
  \/ BtnResetClick
  \/ \E v \in ThrValues : ThrInput(v)
  \/ \E v \in ScaleValues : ScaleInput(v)
  \/ BtnOcrClick
  \/ \E t \in timers : OcrTimerFire(t)
  \/ \E i \in 1..Len(toHost), resp \in HostResponses, d \in DurationValues : HostRunOcr(i, resp, d)
  \/ WindowMessage

InitPanel ==
  /\ hasImage = FALSE
  /\ drawInfo = NoInfo
  /\ isDragging = FALSE
  /\ startX = 0 /\ startY = 0 /\ endX = 0 /\ endY = 0
  /\ thr = 160
  /\ scale = 2
  /\ ocrTimer = 0
  /\ timers = {}
  /\ btnOcrDisabled = TRUE
  /\ btnResetDisabled = TRUE
  /\ fileInputDisabled = FALSE
  /\ btnCopyDisabled = TRUE
  /\ output = <<>>
  /\ confEl = Dash
  /\ durEl = Dash
  /\ pendingLoads = <<>>
  /\ toHost = <<>>
  /\ toWebview = <<>>
  /\ posted = FALSE

(***************************************************************************)
(* popup.js: the browser-extension popup                                   *)
(***************************************************************************)
NoImage == [null |-> TRUE]
PopDash == <<"-">>

\* Math.round(v * dpr) for v >= 0, dpr in tenths
RoundDpr(v, d) == (v * d + 5) \div 10

\* the CROP_DONE payloads content-script.js can send with these pointer positions
CropDoneRects ==
  {[x |-> r.x, y |-> r.y, w |-> r.w, h |-> r.h, dpr |-> d] :
     r \in {rr \in {MoveRect(p[1], p[2], q[1], q[2]) : p \in CsPoints, q \in CsPoints} :
              rr.w >= 2 /\ rr.h >= 2},
     d \in DprValues}

\* img.onload of the CROP_DONE listener: the source rectangle drawn to the canvas
CropSource(rect) ==
  [sx |-> Max(0, RoundDpr(rect.x, rect.dpr)), sy |-> Max(0, RoundDpr(rect.y, rect.dpr)),
   sw |-> Max(1, RoundDpr(rect.w, rect.dpr)), sh |-> Max(1, RoundDpr(rect.h, rect.dpr))]

resetState ==
  /\ popCanvas' = <<0, 0>>
  /\ imgDataUrl' = NoImage
  /\ ocrText' = <<>>
  /\ elConfidence' = PopDash
  /\ elDuration' = PopDash
  /\ popBtnOCRDisabled' = TRUE
  /\ popBtnCopyDisabled' = TRUE

\* btnClear click
BtnClearClick ==
  /\ variant = "popup"
  /\ UserEvent
  /\ resetState
  /\ UNCHANGED <<variant, pendingCrops, fetches, startCropSent, notPopup>>

\* btnStart click: resetState, then START_CROP goes to the active tab
BtnStartClick ==
  /\ variant = "popup"
  /\ UserEvent
  /\ resetState
  /\ startCropSent' = TRUE
  /\ UNCHANGED <<variant, pendingCrops, fetches, notPopup>>

\* runtime.onMessage, CROP_DONE: up to the await of captureVisibleTab
OnCropDone(rect) ==
  /\ variant = "popup"
  /\ UserEvent
  /\ startCropSent
  /\ pendingCrops' = Append(pendingCrops, rect)
  /\ UNCHANGED <<variant, popCanvas, imgDataUrl, ocrText, elConfidence, elDuration,
                 popBtnOCRDisabled, popBtnCopyDisabled, fetches, startCropSent, notPopup>>

\* the screenshot was captured and decoded: img.onload
CropImageLoaded(i) ==
  /\ variant = "popup"
  /\ i \in 1..Len(pendingCrops)
  /\ LET c == CropSource(pendingCrops[i])
     IN /\ popCanvas' = <<c.sw, c.sh>>
        /\ imgDataUrl' = c
  /\ popBtnOCRDisabled' = FALSE
  /\ pendingCrops' = RemoveAt(pendingCrops, i)
  /\ UNCHANGED <<variant, ocrText, elConfidence, elDuration, popBtnCopyDisabled, fetches,
                 startCropSent, userEvents, notPopup>>

\* captureVisibleTab rejected (caught and logged) or the image failed to load
CropCaptureFailed(i) ==
  /\ variant = "popup"
  /\ i \in 1..Len(pendingCrops)
  /\ pendingCrops' = RemoveAt(pendingCrops, i)
  /\ UNCHANGED <<variant, popCanvas, imgDataUrl, ocrText, elConfidence, elDuration,
                 popBtnOCRDisabled, popBtnCopyDisabled, fetches, startCropSent, userEvents,
                 notPopup>>

\* btnOCR click without the check of imgDataUrl
BtnOCRClickNoImageCheck ==
  /\ variant = "popup"
  /\ UserEvent
  /\ ~popBtnOCRDisabled
  /\ popBtnOCRDisabled' = TRUE
  /\ fetches' = Append(fetches, imgDataUrl)
  /\ UNCHANGED <<variant, popCanvas, imgDataUrl, ocrText, elConfidence, elDuration,
                 popBtnCopyDisabled, pendingCrops, startCropSent, notPopup>>

\* btnOCR click, up to the await of fetch (a disabled button gets no click)
BtnOCRClick ==
  /\ variant = "popup"
  /\ UserEvent
  /\ ~popBtnOCRDisabled
  /\ IF imgDataUrl = NoImage
       THEN UNCHANGED <<popBtnOCRDisabled, fetches>>
       ELSE /\ popBtnOCRDisabled' = TRUE
            /\ fetches' = Append(fetches, imgDataUrl)
  /\ UNCHANGED <<variant, popCanvas, imgDataUrl, ocrText, elConfidence, elDuration,
                 popBtnCopyDisabled, pendingCrops, startCropSent, notPopup>>

RECURSIVE Join(_)
\* Array.prototype.join(", ")
Join(items) ==
  IF items = <<>> THEN <<>>
  ELSE IF Len(items) = 1 THEN items
  ELSE <<Head(items), ", ">> \o Join(Tail(items))

\* the try block of the btnOCR click handler after fetch:
\* [ok |-> TRUE, text, conf] or [ok |-> FALSE, message] when it throws
PopupParse(resp) ==
  IF resp.kind = "reject"
    THEN [ok |-> FALSE, text |-> <<>>, conf |-> <<>>, message |-> <<"Failed to fetch">>]
  ELSE IF resp.kind = "text"
    THEN [ok |-> FALSE, text |-> <<>>, conf |-> <<>>, message |-> <<"Unexpected token">>]
  ELSE IF resp.IsErroredOnProcessing
    THEN LET em == resp.ErrorMessage
             msg == IF em.isArray THEN Join(em.items)
                    ELSE (IF em.items = <<>> THEN <<"OCR failed">> ELSE em.items)
         IN [ok |-> FALSE, text |-> <<>>, conf |-> <<>>, message |-> msg]
  ELSE [ok |-> TRUE, text |-> Trim(resp.ParsedText), conf |-> resp.MeanConfidence,
        message |-> <<>>]

\* btnOCR click handler from the completion of fetch to the end of finally
FetchDone(i, resp, elapsed) ==
  /\ variant = "popup"
  /\ i \in 1..Len(fetches)
  /\ LET r == PopupParse(resp)
     IN IF r.ok
          THEN /\ ocrText' = r.text
               /\ elConfidence' = IF r.conf # <<>> THEN <<"%">> \o r.conf ELSE <<"n/a">>
               /\ elDuration' = <<" ms", elapsed>>
               /\ popBtnCopyDisabled' = (r.text = <<>>)
          \* `OCR error: ${e?.message || e}`
          ELSE /\ ocrText' = <<"OCR error: ">> \o (IF r.message = <<>> THEN <<"Error">>
                                                   ELSE r.message)
               /\ elConfidence' = PopDash
               /\ elDuration' = PopDash
               /\ UNCHANGED popBtnCopyDisabled
  /\ popBtnOCRDisabled' = FALSE
  /\ fetches' = RemoveAt(fetches, i)
  /\ UNCHANGED <<variant, popCanvas, imgDataUrl, pendingCrops, startCropSent, userEvents,
                 notPopup>>

NextPopup ==
  \/ BtnClearClick
  \/ BtnStartClick
  \/ \E rect \in CropDoneRects : OnCropDone(rect)
  \/ \E i \in 1..Len(pendingCrops) : CropImageLoaded(i)
  \/ \E i \in 1..Len(pendingCrops) : CropCaptureFailed(i)
  \/ BtnOCRClick
  \/ \E i \in 1..Len(fetches), resp \in Responses, d \in DurationValues : FetchDone(i, resp, d)

InitPopup ==
  /\ popCanvas = <<0, 0>>
  /\ imgDataUrl = NoImage
  /\ ocrText = <<>>
  /\ elConfidence = PopDash
  /\ elDuration = PopDash
  /\ popBtnOCRDisabled = TRUE
  /\ popBtnCopyDisabled = TRUE
  /\ pendingCrops = <<>>
  /\ fetches = <<>>
  /\ startCropSent = FALSE

(***************************************************************************)
(* components/captcha-solver.tsx: the standalone page component            *)
(***************************************************************************)
Null == [null |-> TRUE]
\* error === null (a message is a non-empty sequence)
NoError == <<>>
BlankCanvas == [blank |-> TRUE]

\* outcomes of Tesseract.recognize: data.text, data.confidence (<<>> when not a
\* number), data.words (confidence <<>> when missing), or a rejection
NoWords == [isArray |-> FALSE, items |-> <<>>]
TessResults ==
  { [kind |-> "resolve", text |-> <<"A", " ", "B", "\n">>, confidence |-> <<70>>,
     words |-> [isArray |-> TRUE, items |-> <<[confidence |-> <<90>>], [confidence |-> <<>>]>>],
     message |-> <<>>],
    [kind |-> "resolve", text |-> <<>>, confidence |-> <<>>, words |-> NoWords,
     message |-> <<>>],
    [kind |-> "reject", text |-> <<>>, confidence |-> <<>>, words |-> NoWords,
     message |-> <<"worker failed">>],
    [kind |-> "reject", text |-> <<>>, confidence |-> <<>>, words |-> NoWords,
     message |-> <<>>] }

\* s.trim().replace(/\s+/g, "")
RemoveWhitespace(s) == SelectSeq(Trim(s), LAMBDA c : c \notin Whitespace)

\* the confidence runOcr stores, as <<sum, n>> for sum / n
RunOcrConfidence(data) ==
  LET overall == IF data.confidence # <<>> THEN <<data.confidence[1], 1>> ELSE <<0, 1>>
      items == data.words.items
      vals == [i \in 1..Len(items) |->
                 IF items[i].confidence = <<>> THEN 0 ELSE items[i].confidence[1]]
  IN IF data.words.isArray /\ Len(items) > 0 THEN <<SumSeq(vals), Len(items)>> ELSE overall

\* the render after a state change: useMemo recomputes processedDataUrl from
\* the canvas when one of its dependencies changed
Render(canvasNow) ==
  processedDataUrl' =
    IF <<processing', src', config'>> # <<processing, src, config>>
      THEN canvasNow ELSE processedDataUrl

\* the useEffect on drawToCanvas: runs when src or a setting changed
drawToCanvas ==
  IF src' = Null
    THEN UNCHANGED <<processing, pendingDraws>> /\ error' = error
    ELSE /\ processing' = TRUE
         /\ error' = NoError
         /\ pendingDraws' = Append(pendingDraws, [src |-> src', config |-> config'])

\* onFileChange / handleDrop, and the useEffect on file up to reader.readAsDataURL
OnFileChange(f) ==
  /\ variant = "component"
  /\ UserEvent
  /\ compFile' = f
  /\ result' = Null
  /\ error' = NoError
  /\ pendingReads' = Append(pendingReads, f)
  /\ UNCHANGED <<variant, src, processing, ocring, config, pendingDraws, canvas,
                 processedDataUrl, recognizing, notComponent>>

\* reader.onload: setSrc, then the effect on drawToCanvas
ReaderOnload(i) ==
  /\ variant = "component"
  /\ i \in 1..Len(pendingReads)
  /\ src' = [file |-> pendingReads[i]]
  /\ pendingReads' = RemoveAt(pendingReads, i)
  /\ UNCHANGED <<variant, compFile, ocring, result, config, canvas, recognizing, userEvents,
                 notComponent>>
  /\ IF src' = src
       THEN UNCHANGED <<processing, error, pendingDraws>>
       ELSE drawToCanvas
  /\ Render(canvas)

\* one of the five settings changed to the configuration c
SetConfig(c) ==
  /\ variant = "component"
  /\ UserEvent
  /\ c # config
  /\ config' = c
  /\ UNCHANGED <<variant, compFile, src, ocring, result, pendingReads, canvas, recognizing,
                 notComponent>>
  /\ drawToCanvas
  /\ Render(canvas)

\* img.onload of a drawToCanvas run: the canvas now shows that run's output
DrawOnload(i) ==
  /\ variant = "component"
  /\ i \in 1..Len(pendingDraws)
  /\ canvas' = pendingDraws[i]
  /\ processing' = FALSE
  /\ pendingDraws' = RemoveAt(pendingDraws, i)
  /\ UNCHANGED <<variant, compFile, src, ocring, result, error, config, pendingReads,
                 recognizing, userEvents, notComponent>>
  /\ Render(canvas')

\* img.onerror of a drawToCanvas run
DrawOnerror(i) ==
  /\ variant = "component"
  /\ i \in 1..Len(pendingDraws)
  /\ error' = <<"Failed to load image">>
  /\ processing' = FALSE
  /\ pendingDraws' = RemoveAt(pendingDraws, i)
  /\ UNCHANGED <<variant, compFile, src, ocring, result, config, pendingReads, canvas,
                 recognizing, userEvents, notComponent>>
  /\ Render(canvas)

\* fault: runOcr without its setResult(null)
runOcrKeepsResult ==
  /\ variant = "component"
  /\ UserEvent
  /\ src # Null /\ ~processing /\ ~ocring
  /\ IF processedDataUrl = Null
       THEN /\ error' = <<"No processed image available">>
            /\ UNCHANGED <<ocring, result, recognizing>>
       ELSE /\ ocring' = TRUE
            /\ error' = NoError
            /\ UNCHANGED result
            /\ recognizing' = Append(recognizing, processedDataUrl)
  /\ UNCHANGED <<variant, compFile, src, processing, config, pendingReads, pendingDraws,
                 canvas, processedDataUrl, notComponent>>

\* runOcr up to the await (the button is disabled={!src || processing || ocring})
runOcr ==
  /\ variant = "component"
  /\ UserEvent
  /\ src # Null /\ ~processing /\ ~ocring
  /\ IF processedDataUrl = Null
       THEN /\ error' = <<"No processed image available">>
            /\ UNCHANGED <<ocring, result, recognizing>>
       ELSE /\ ocring' = TRUE
            /\ error' = NoError
            /\ result' = Null
            /\ recognizing' = Append(recognizing, processedDataUrl)
  /\ UNCHANGED <<variant, compFile, src, processing, config, pendingReads, pendingDraws,
                 canvas, processedDataUrl, notComponent>>

\* runOcr from the completion of Tesseract.recognize to the end of finally
RecognizeDone(i, data, durationMs) ==
  /\ variant = "component"
  /\ i \in 1..Len(recognizing)
  /\ IF data.kind = "resolve"
       THEN /\ result' = [text |-> RemoveWhitespace(data.text),
                          confidence |-> RunOcrConfidence(data),
                          durationMs |-> durationMs]
            /\ UNCHANGED error
       \* err?.message || "OCR failed"
       ELSE /\ error' = IF data.message = <<>> THEN <<"OCR failed">> ELSE data.message
            /\ UNCHANGED result
  /\ ocring' = FALSE
  /\ recognizing' = RemoveAt(recognizing, i)
  /\ UNCHANGED <<variant, compFile, src, processing, config, pendingReads, pendingDraws,
                 canvas, processedDataUrl, userEvents, notComponent>>

\* the setters change one setting at a time
OneSettingApart(c, d) ==
  Cardinality({k \in DOMAIN c : c[k] # d[k]}) = 1

NextComponent ==
  \/ \E f \in CompFiles : OnFileChange(f)
  \/ \E i \in 1..Len(pendingReads) : ReaderOnload(i)
  \/ \E c \in Configs : OneSettingApart(c, config) /\ SetConfig(c)
  \/ \E i \in 1..Len(pendingDraws) : DrawOnload(i)
  \/ \E i \in 1..Len(pendingDraws) : DrawOnerror(i)
  \/ runOcr
  \/ \E i \in 1..Len(recognizing), data \in TessResults, d \in DurationValues :
       RecognizeDone(i, data, d)

InitComponent ==
  /\ compFile = 0
  /\ src = Null
  /\ processing = FALSE
  /\ ocring = FALSE
  /\ result = Null
  /\ error = NoError
  /\ pendingReads = <<>>
  /\ pendingDraws = <<>>
  /\ canvas = BlankCanvas
  /\ processedDataUrl = Null
  /\ recognizing = <<>>

(***************************************************************************)
(* Initial states                                                          *)
(***************************************************************************)
(***************************************************************************)
(* One backend reply through callOcrSpace, the popup's try block and        *)
(* runOcr's confidence                                                     *)
(***************************************************************************)
\* data.words of Tesseract: absent, or an array of words with or without a
\* confidence
WordLists ==
  {NoWords, [isArray |-> TRUE, items |-> <<>>],
   [isArray |-> TRUE, items |-> <<[confidence |-> <<90>>], [confidence |-> <<80>>]>>],
   [isArray |-> TRUE, items |-> <<[confidence |-> <<90>>], [confidence |-> <<>>]>>]}
TessInputs ==
  {[kind |-> "resolve", text |-> <<"A", " ", "B", "\n">>, confidence |-> c, words |-> w,
    message |-> <<>>] : c \in {<<>>, <<70>>}, w \in WordLists}
DefaultTess == CHOOSE d \in TessInputs : d.confidence = <<>> /\ d.words = NoWords

ApplyCallOcrSpace ==
  /\ variant = "response"
  /\ outHost = <<>>
  /\ outHost' = <<callOcrSpace(backendReply)>>
  /\ UNCHANGED <<variant, backendReply, tessData, outPopup, outTess, notResponse>>

ApplyPopupParse ==
  /\ variant = "response"
  /\ outPopup = <<>>
  /\ outPopup' = <<PopupParse(backendReply)>>
  /\ UNCHANGED <<variant, backendReply, tessData, outHost, outTess, notResponse>>

ApplyRunOcrConfidence ==
  /\ variant = "response"
  /\ outTess = <<>>
  /\ outTess' = <<RunOcrConfidence(tessData)>>
  /\ UNCHANGED <<variant, backendReply, tessData, outHost, outPopup, notResponse>>

NextResponse == ApplyCallOcrSpace \/ ApplyPopupParse \/ ApplyRunOcrConfidence

InitResponse ==
  /\ backendReply \in (IF variant = "response" THEN ResponseInputs ELSE {Recognised})
  /\ tessData \in (IF variant = "response" /\ backendReply = Recognised THEN TessInputs
                    ELSE {DefaultTess})
  /\ outHost = <<>>
  /\ outPopup = <<>>
  /\ outTess = <<>>

InitCs ==
  /\ overlay = FALSE
  /\ domOverlays = 0
  /\ listeners = FALSE
  /\ box = NoBox
  /\ csStartX = 0
  /\ csStartY = 0
  /\ active = FALSE
  /\ sent = <<>>
  /\ startCrops = 0
  /\ released = NoBox

Init ==
  /\ variant \in {"cs", "pipeline", "panel", "popup", "component", "response"}
  /\ userEvents = 0
  /\ InitCs
  /\ InitPanel
  /\ InitPopup
  /\ InitComponent
  /\ dpr \in (IF variant = "cs" THEN DprValues ELSE {10})
  /\ px \in (IF variant = "pipeline" THEN Pixels ELSE {DefaultPixel})
  /\ config \in (IF variant = "pipeline" THEN Configs ELSE {DefaultConfig})
  /\ outComponent = NoPixel
  /\ outPanel = NoPixel
  /\ inverted = <<>>
  /\ InitResponse

Next == NextCs \/ NextPipeline \/ NextPanel \/ NextPopup \/ NextComponent \/ NextResponse

Spec == Init /\ [][Next]_vars

\* Timers fire, posted messages are delivered, and every request, recognition
\* and image load that was started completes.
Fairness ==
  /\ WF_vars(\E t \in timers : OcrTimerFire(t))
  /\ WF_vars(\E i \in 1..Len(toHost), resp \in HostResponses, d \in DurationValues :
               HostRunOcr(i, resp, d))
  /\ WF_vars(WindowMessage)
  /\ WF_vars(\E i \in 1..Len(fetches), resp \in Responses, d \in DurationValues :
               FetchDone(i, resp, d))
  /\ WF_vars(\E i \in 1..Len(recognizing), data \in TessResults, d \in DurationValues :
               RecognizeDone(i, data, d))

LiveSpec == Init /\ [][Next]_vars /\ Fairness

(***************************************************************************)
(* Properties                                                              *)
(***************************************************************************)

\* C1: in the editor panel a reply to a run-ocr request that was posted before
\* the selection or a slider changed is discarded: the message handler leaves
\* the text, confidence and duration fields as they are.
C1_StaleReplyDiscarded ==
  [][(WindowMessage /\ Head(toWebview).stale) => UNCHANGED <<output, confEl, durEl>>]_vars

\* C2: in the editor panel at most one run-ocr request is outstanding (posted
\* and not yet answered) at any time.
C2_AtMostOneOutstanding ==
  variant = "panel" => Len(toHost) + Len(toWebview) <= 1

\* C3: in the editor panel, with an image loaded, triggers (slider input, crop
\* finished) that arrive within the quiet period cause exactly one run-ocr
\* request, carrying the threshold and scale in force after the last of them:
\* every trigger leaves exactly one pending timer and posts nothing, and a
\* timer that fires leaves none and posts one request with those values.
Rescheduled ==
  /\ Cardinality(timers') = 1
  /\ \A t \in timers' : t.id = ocrTimer' /\ t.thr = thr' /\ t.scale = scale'
  /\ Len(toHost') = Len(toHost)

C3_DebounceOneRequest ==
  [][variant = "panel" =>
       /\ Cardinality(timers') <= 1
       /\ \A v \in ThrValues : (ThrInput(v) /\ hasImage) => Rescheduled
       /\ \A v \in ScaleValues : (ScaleInput(v) /\ hasImage) => Rescheduled
       /\ \A p \in PanelPoints : (WindowMouseUp(p) /\ isDragging) => Rescheduled
       /\ \A t \in timers :
            OcrTimerFire(t) =>
              /\ timers' = {}
              /\ Len(toHost') = Len(toHost) + 1
              /\ LET m == toHost'[Len(toHost')]
                 IN /\ m.type = "run-ocr"
                    /\ m.threshold = getThresholdVal(t.thr)
                    /\ m.scale = getScaleVal(t.scale)
                    /\ m.dataUrl.threshold = getThresholdVal(t.thr)]_vars

\* load, threshold to 128 and scale to 1 within the quiet period, one request
C3_Witness ==
  /\ variant = "panel"
  /\ userEvents = 3
  /\ posted
  /\ timers = {}
  /\ Len(toHost) = 1
  /\ toHost[1].threshold = 128
  /\ toHost[1].scale = 1
  /\ toWebview = <<>>
  /\ output = <<>>
  /\ durEl = Dash

\* C4: in the editor panel, with an image loaded, every finished crop drag and
\* every threshold or scale adjustment sets the debounce timer, and a pending
\* timer is eventually followed by a run-ocr request being posted, without a
\* click on Run OCR.
C4_TriggerEventuallyPosts ==
  /\ [][variant = "panel" =>
          /\ \A p \in PanelPoints :
               (WindowMouseUp(p) /\ isDragging) =>
                 \E t \in timers' : t.cause \in {"crop", "cropDegenerate"}
          /\ \A v \in ThrValues :
               (ThrInput(v) /\ hasImage) => \E t \in timers' : t.cause = "thr"
          /\ \A v \in ScaleValues :
               (ScaleInput(v) /\ hasImage) => \E t \in timers' : t.cause = "scale"
          /\ \A t \in timers :
               OcrTimerFire(t) =>
                 /\ posted'
                 /\ toHost' # <<>>
                 /\ toHost'[Len(toHost')].cause = t.cause]_vars
  /\ ((variant = "panel" /\ timers # {}) ~> posted)

\* load, a 3 x 2 drag, and the request posted for it by the timer
C4_Witness ==
  /\ variant = "panel"
  /\ posted
  /\ toHost # <<>>
  /\ toHost[Len(toHost)].cause = "crop"
  /\ toHost[Len(toHost)].dataUrl.w = 3
  /\ toHost[Len(toHost)].dataUrl.h = 2

C6_DegenerateMouseUpSendsNothing ==
  [][variant = "cs" =>
       /\ (onMouseUp /\ active /\ (getBoxRect(box).w < 2 \/ getBoxRect(box).h < 2)) =>
            /\ sent' = sent
            /\ ~overlay' /\ ~active' /\ ~listeners' /\ box' = NoBox
       /\ sent' # sent =>
            /\ Len(sent') = Len(sent) + 1
            /\ SubSeq(sent', 1, Len(sent)) = sent
            /\ LET m == sent'[Len(sent')]
               IN /\ m.type = "CROP_DONE"
                  /\ m.rect.w >= 2 /\ m.rect.h >= 2
                  /\ m.rect.w = getBoxRect(box).w /\ m.rect.h = getBoxRect(box).h]_vars

\* a drag from (1,1) to (2,4) was released: 1 x 3, nothing sent, idle again
C6_Witness ==
  /\ variant = "cs"
  /\ released # NoBox
  /\ released.w = 1 /\ released.h = 3
  /\ ~overlay /\ ~active
  /\ sent = <<>>

\* C7: in both implementations a pixel whose luminance equals the threshold
\* becomes black and one whose luminance is one above becomes white (invert
\* off); luminance is the weighted sum 0.299 r + 0.587 g + 0.114 b, rounded.
WeightedSum1000 == 299 * px[1] + 587 * px[2] + 114 * px[3]
Luminance == (WeightedSum1000 + 500) \div 1000
StrictThreshold(out) ==
  /\ Luminance = config.threshold => out[1] = 0 /\ out[2] = 0 /\ out[3] = 0
  /\ Luminance = config.threshold + 1 => out[1] = 255 /\ out[2] = 255 /\ out[3] = 255
C7_StrictThresholdBoth ==
  variant = "pipeline" =>
    /\ (outComponent # NoPixel /\ config.thresholdEnabled /\ ~config.invert)
         => StrictThreshold(outComponent)
    /\ outPanel # NoPixel => StrictThreshold(outPanel)

\* C8: the selection rectangle is x = min, y = min, w = |dx|, h = |dy| of the
\* two drag points, w and h are never negative, and swapping the two points
\* gives the same rectangle, in the content script and in the panel.
C8_RectNormalised ==
  [][/\ variant = "cs" =>
          /\ getBoxRect(box').w >= 0 /\ getBoxRect(box').h >= 0
          /\ \A p \in CsPoints :
               (onMouseMove(p) /\ active) =>
                 /\ getBoxRect(box') =
                      [x |-> Min(csStartX, p[1]), y |-> Min(csStartY, p[2]),
                       w |-> Abs(p[1] - csStartX), h |-> Abs(p[2] - csStartY)]
                 /\ MoveRect(csStartX, csStartY, p[1], p[2]) =
                      MoveRect(p[1], p[2], csStartX, csStartY)
     /\ variant = "panel" =>
          LET r == normalizedRect(startX', startY', endX', endY')
          IN /\ r # NoRect =>
                  r = [x |-> Min(startX', endX'), y |-> Min(startY', endY'),
                       w |-> Abs(endX' - startX'), h |-> Abs(endY' - startY')]
             /\ r = normalizedRect(endX', endY', startX', startY')
             /\ \A i \in 1..Len(toHost') :
                  toHost'[i].dataUrl.w >= 1 /\ toHost'[i].dataUrl.h >= 1]_vars

\* an up-left drag in the content script, from (4,4) to (1,1)
C8_Witness ==
  /\ variant = "cs"
  /\ active
  /\ csStartX = 4 /\ csStartY = 4
  /\ getBoxRect(box) = [x |-> 1, y |-> 1, w |-> 3, h |-> 3]

\* C9: in the content script Escape while the overlay is shown returns to
\* idle and discards the rectangle; while idle nothing is sent, and only a new
\* START_CROP shows the overlay again.
C9_EscapeReturnsToIdle ==
  [][variant = "cs" =>
       /\ onKeyDown("Escape") =>
            /\ ~overlay' /\ ~active' /\ ~listeners' /\ box' = NoBox
            /\ sent' = sent
       /\ ~overlay => sent' = sent
       /\ (~overlay /\ overlay') => OnStartCrop]_vars

\* Escape in the middle of a drag that started at (1,1): idle, nothing sent
C9_Witness ==
  /\ variant = "cs"
  /\ startCrops = 1
  /\ csStartX = 1 /\ csStartY = 1
  /\ ~overlay /\ ~active /\ ~listeners
  /\ released = NoBox
  /\ sent = <<>>

\* C10: in every variant the busy state is released when a recognition call
\* completes, by success or by failure: the step that handles the completion
\* clears it, and a call that was started is eventually followed by a state
\* where it is clear.
CallOutstanding ==
  toHost # <<>> \/ toWebview # <<>> \/ fetches # <<>> \/ recognizing # <<>>

BusyClear ==
  /\ variant = "panel" => ~btnOcrDisabled /\ ~btnResetDisabled /\ ~fileInputDisabled
  /\ variant = "popup" => ~popBtnOCRDisabled
  /\ variant = "component" => ~ocring

C10_BusyReleased ==
  /\ [][/\ Len(toWebview') < Len(toWebview) =>
             ~btnOcrDisabled' /\ ~btnResetDisabled' /\ ~fileInputDisabled'
        /\ Len(fetches') < Len(fetches) => ~popBtnOCRDisabled'
        /\ Len(recognizing') < Len(recognizing) => ~ocring']_vars
  /\ (CallOutstanding ~> BusyClear)

\* the panel after an ocr-error reply: the controls are enabled again
C10_Witness ==
  /\ variant = "panel"
  /\ output # <<>>
  /\ Head(output) = "Error: "
  /\ toHost = <<>> /\ toWebview = <<>>
  /\ ~btnOcrDisabled /\ ~btnResetDisabled /\ ~fileInputDisabled

\* C11: when a recognition call fails, the result of an earlier success is no
\* longer shown in any variant: the step that handles the failure leaves only
\* the error message (text, confidence and duration of a success are gone),
\* and the busy state is clear so that a new call may be started.
C11_FailureClearsResult ==
  [][/\ (WindowMessage /\ Head(toWebview).type = "ocr-error") =>
          /\ output' = <<"Error: ">> \o Head(toWebview).message
          /\ confEl' = Dash /\ durEl' = Dash
          /\ ~btnOcrDisabled'
     /\ \A i \in 1..Len(fetches), resp \in Responses, d \in DurationValues :
          (FetchDone(i, resp, d) /\ ~PopupParse(resp).ok) =>
            /\ Head(ocrText') = "OCR error: "
            /\ Tail(ocrText') # <<>>
            /\ elConfidence' = PopDash /\ elDuration' = PopDash
            /\ ~popBtnOCRDisabled'
     /\ \A i \in 1..Len(recognizing), data \in TessResults, d \in DurationValues :
          (RecognizeDone(i, data, d) /\ data.kind = "reject") =>
            /\ result' = Null
            /\ error' # NoError
            /\ ~ocring']_vars

\* the popup after a success (Copy is enabled) followed by a failed call
C11_Witness ==
  /\ variant = "popup"
  /\ ~popBtnCopyDisabled
  /\ ocrText # <<>>
  /\ Head(ocrText) = "OCR error: "
  /\ elConfidence = PopDash /\ elDuration = PopDash
  /\ ~popBtnOCRDisabled

\* the reply carries the processing-error flag
ErroredReply == backendReply.kind = "json" /\ backendReply.IsErroredOnProcessing
\* the entries of a message kept as a sequence of pieces
Pieces(message) == {message[i] : i \in 1..Len(message)}

C13_FailedResponseNeverSuccess ==
  (backendReply.kind = "reject" \/ ~backendReply.ok) =>
    /\ outHost # <<>> => ~outHost[1].ok
    /\ outPopup # <<>> => ~outPopup[1].ok

\* the confidence the normalization rule gives, as <<sum, n>> for sum / n:
\* the aggregate when there is one, else the mean of the per-token values,
\* else 0
NormalizedConfidence(aggregate, tokens) ==
  IF aggregate # <<>> THEN <<aggregate[1], 1>>
  ELSE IF tokens # <<>> THEN <<SumSeq(tokens), Len(tokens)>>
  ELSE <<0, 1>>
\* a stored confidence c (<<>> for undefined) is the number sum / n of e
SameNumber(c, e) == c # <<>> /\ c[1] * e[2] = e[1] * c[2]
\* the per-token confidences of Tesseract's words
WordValues(words) ==
  LET have == SelectSeq(words.items, LAMBDA w : w.confidence # <<>>)
  IN [i \in 1..Len(have) |-> have[i].confidence[1]]

\* C14: the confidence of a successful result is the aggregate confidence
\* when the backend reports one, otherwise the arithmetic mean of the
\* per-token confidences, and 0 when there are none, in both the component's
\* runOcr and the host's callOcrSpace.
C14_ConfidenceNormalized ==
  /\ (outTess # <<>>) =>
       SameNumber(outTess[1], NormalizedConfidence(tessData.confidence,
                                                   WordValues(tessData.words)))
  /\ (outHost # <<>> /\ outHost[1].ok) =>
       SameNumber(outHost[1].confidence,
                  NormalizedConfidence(backendReply.MeanConfidence,
                                       NumbersOf(backendReply.WordConfidences.items)))

\* Math.floor(v * dpr) with dpr in tenths
FloorDpr(v, d) == (v * d) \div 10

\* C15: the crop the popup takes for a CROP_DONE rectangle is
\* (round(x*dpr), round(y*dpr), max(1, floor(w*dpr)), max(1, floor(h*dpr))).
C15_CropRoundsXYFloorsWH ==
  [][\A i \in 1..Len(pendingCrops) :
       CropImageLoaded(i) =>
         LET r == pendingCrops[i]
         IN /\ imgDataUrl' = [sx |-> RoundDpr(r.x, r.dpr), sy |-> RoundDpr(r.y, r.dpr),
                              sw |-> Max(1, FloorDpr(r.w, r.dpr)),
                              sh |-> Max(1, FloorDpr(r.h, r.dpr))]
            /\ popCanvas' = <<Max(1, FloorDpr(r.w, r.dpr)), Max(1, FloorDpr(r.h, r.dpr))>>]_vars

\* the pixel a pipeline in the order grayscale, threshold, invert leaves, by
\* cases on the three flags (px is the pixel getImageData reads, so after
\* scaling)
ReferencePixel ==
  LET a == px[4]
      flip(c) == IF config.invert THEN 255 - c ELSE c
  IN IF config.thresholdEnabled
       THEN LET v == flip(IF Luminance > config.threshold THEN 255 ELSE 0) IN <<v, v, v, a>>
     ELSE IF config.grayscale
       THEN <<flip(Luminance), flip(Luminance), flip(Luminance), a>>
     ELSE <<flip(px[1]), flip(px[2]), flip(px[3]), a>>

\* C16: for every pixel and every configuration the component's pipeline
\* leaves the pixel of the reference pipeline: luminance exactly when
\* grayscale or thresholdEnabled, threshold only when thresholdEnabled, invert
\* last, on the thresholded values.
C16_PipelineOrder ==
  (variant = "pipeline" /\ outComponent # NoPixel) => outComponent = ReferencePixel

C16_Witness ==
  /\ variant = "pipeline"
  /\ config.thresholdEnabled /\ config.invert /\ ~config.grayscale
  /\ Luminance = config.threshold
  /\ px[1] # px[2]
  /\ outComponent = <<255, 255, 255, px[4]>>

\* C17: running the invert loop twice with the configuration unchanged
\* restores R, G and B exactly and leaves alpha as it was, for the pixel of
\* the buffer and for every channel value 0..255.
C17_InvertTwiceRestores ==
  /\ inverted # <<>> =>
       /\ inverted[2] = px
       /\ inverted[1][4] = px[4]
       /\ config.invert => \A k \in 1..3 : inverted[1][k] = 255 - px[k]
  /\ \A c \in 0..255 :
       LET p == <<c, c, c, px[4]>>
       IN InvertStage(InvertStage(p, config), config) = p

C17_Witness ==
  /\ variant = "pipeline"
  /\ config.invert
  /\ px[4] # 255
  /\ inverted # <<>>
  /\ inverted[1] # px
  /\ inverted[2] = px

\* C18: recognition is never started without an image: no step of the panel
\* posts a run-ocr message while hasImage is false, and no step of the popup
\* sends an OCR request while imgDataUrl is null.
C18_NoRecognitionWithoutImage ==
  [][/\ Len(toHost') > Len(toHost) => (hasImage /\ hasImage')
     /\ Len(fetches') > Len(fetches) =>
          /\ imgDataUrl # NoImage
          /\ fetches'[Len(fetches')] # NoImage
     /\ ~hasImage' => (toHost' = <<>> /\ toWebview' = <<>>)]_vars

\* the popup's OCR button is enabled while there is no image (a request
\* completed after Clear), the budget of user events is used up and no
\* request is in flight
C18_Witness ==
  /\ variant = "popup"
  /\ imgDataUrl = NoImage
  /\ ~popBtnOCRDisabled
  /\ userEvents = MaxPopupEvents
  /\ fetches = <<>>

\* an opaque pixel that is black or white
OpaqueBinary(out) ==
  /\ out[4] = 255
  /\ out[1] = out[2] /\ out[2] = out[3]
  /\ out[1] \in {0, 255}

\* C19: whenever the threshold stage runs, the output pixel has alpha 255 and
\* R = G = B in {0, 255}, in the component's drawToCanvas and in the panel's
\* cropToDataUrl.
C19_ThresholdOpaqueBinary ==
  variant = "pipeline" =>
    /\ (outComponent # NoPixel /\ config.thresholdEnabled) => OpaqueBinary(outComponent)
    /\ outPanel # NoPixel => OpaqueBinary(outPanel)

\* the popup shows what resetState left: no image, empty text, dashes
PopupCleared ==
  /\ imgDataUrl = NoImage
  /\ ocrText = <<>>
  /\ elConfidence = PopDash
  /\ elDuration = PopDash
  /\ popBtnCopyDisabled

\* C20: in the popup a recognition call that completes after Clear or Select
\* area ran resetState (the image it was started with is gone) does not
\* repopulate the cleared state: text, confidence and duration stay reset.
C20_StaleCompletionDropped ==
  [][\A i \in 1..Len(fetches), resp \in Responses, d \in DurationValues :
       (FetchDone(i, resp, d) /\ PopupCleared) =>
         /\ ocrText' = <<>>
         /\ elConfidence' = PopDash
         /\ elDuration' = PopDash
         /\ popBtnCopyDisabled']_vars

\* C21: in the popup at most one OCR request is in flight at any time.
C21_PopupAtMostOneInFlight ==
  variant = "popup" => Len(fetches) <= 1

\* the stored rectangle, the drag flag and the debounce timer are as before
\* and nothing was posted
NoDragEffect ==
  /\ UNCHANGED <<isDragging, startX, startY, endX, endY, ocrTimer, timers>>
  /\ Len(toHost') = Len(toHost)

\* C22: in the panel a drag starts only on a mousedown inside the drawn
\* image with an image loaded; a mousedown outside the image or without an
\* image changes neither isDragging nor the stored rectangle, and mousemove
\* and mouseup while not dragging change nothing and schedule nothing.
C22_DragStartsInsideImage ==
  [][/\ \A p \in PanelPoints :
          /\ (CanvasMouseDown(p) /\ (~hasImage \/ ~withinImage(drawInfo, p[1], p[2])))
               => NoDragEffect
          /\ (CanvasMouseMove(p) /\ ~isDragging) => NoDragEffect
          /\ (WindowMouseUp(p) /\ ~isDragging) => NoDragEffect
     /\ (~isDragging /\ isDragging') =>
          /\ hasImage
          /\ withinImage(drawInfo, startX', startY')
          /\ endX' = startX' /\ endY' = startY']_vars

\* an image is loaded, some pointer positions lie outside it, every user
\* event is spent and no drag was started
C22_Witness ==
  /\ variant = "panel"
  /\ hasImage
  /\ \E p \in PanelPoints : ~withinImage(drawInfo, p[1], p[2])
  /\ userEvents = MaxUserEvents
  /\ ~isDragging
  /\ CurrentSel = selectFullImageRegion(drawInfo, CurrentSel)

\* C23: in the component the processing flag is true whenever a drawToCanvas
\* run is still pending, and Run OCR is only ever given a canvas that shows
\* the output of the current source and configuration.
C23_OcrOnCurrentCanvas ==
  [][/\ pendingDraws' # <<>> => processing'
     /\ (runOcr /\ processedDataUrl # Null) =>
          /\ pendingDraws = <<>>
          /\ recognizing'[Len(recognizing')] = [src |-> src, config |-> config]]_vars

\* C24: in the panel, once an image is loaded, the Run OCR, Reset and file
\* input controls are disabled exactly while a run-ocr request has been
\* posted and not yet answered.
C24_BusyMatchesOutstanding ==
  (variant = "panel" /\ hasImage) =>
    LET outstanding == toHost # <<>> \/ toWebview # <<>>
    IN /\ btnOcrDisabled = outstanding
       /\ btnResetDisabled = outstanding
       /\ fileInputDisabled = outstanding

\* nothing has triggered a recognition since Reset: the rectangle and the
\* output are as Reset left them, no drag is under way, no request is
\* outstanding
AsResetLeftIt ==
  /\ CurrentSel = <<0, 0, 0, 0>>
  /\ ~isDragging
  /\ output = <<>> /\ confEl = Dash /\ durEl = Dash
  /\ toHost = <<>> /\ toWebview = <<>>

\* C25: in the panel Reset cancels pending work: a debounce timer that was
\* pending when Reset was pressed posts no run-ocr request when nothing has
\* triggered a recognition since.
C25_ResetCancelsPending ==
  [][\A t \in timers :
       (OcrTimerFire(t) /\ t.reset /\ AsResetLeftIt) => Len(toHost') = Len(toHost)]_vars

\* C26: in the content script each START_CROP leads to at most one
\* CROP_DONE: a CROP_DONE is only sent while an overlay exists, sending it
\* removes the overlay, and without an overlay nothing is sent until the
\* next START_CROP.
C26_OneCropDonePerStart ==
  [][/\ Len(sent') <= startCrops'
     /\ Len(sent') > Len(sent) =>
          /\ overlay /\ active
          /\ ~overlay' /\ ~listeners' /\ ~active' /\ box' = NoBox /\ domOverlays' = 0
     /\ (~overlay /\ ~OnStartCrop) => (sent' = sent /\ ~overlay')]_vars

C26_Witness ==
  /\ variant = "cs"
  /\ startCrops = MaxStartCrop
  /\ Len(sent) = startCrops
  /\ ~overlay /\ ~listeners

\* C27: in the content script at most one overlay exists, the window
\* listeners are registered exactly while an overlay exists, without an
\* overlay active is false and box is null, and a START_CROP leaves exactly
\* one fresh overlay with no drag in progress.
C27_OverlayLifecycle ==
  [][/\ domOverlays' <= 1
     /\ (domOverlays' = 1) = overlay'
     /\ listeners' = overlay'
     /\ ~overlay' => (~active' /\ box' = NoBox)
     /\ overlay' => box' # NoBox
     /\ OnStartCrop => (overlay' /\ domOverlays' = 1 /\ ~active' /\ box' = NewBox)]_vars

\* after the last START_CROP: a drag was started earlier and never released,
\* the overlay is fresh, no drag is in progress and nothing was sent
C27_Witness ==
  /\ variant = "cs"
  /\ startCrops = MaxStartCrop
  /\ overlay /\ domOverlays = 1 /\ listeners
  /\ csStartX # 0
  /\ released = NoBox /\ sent = <<>>
  /\ ~active /\ box = NewBox

\* C28: in the popup the Run OCR button is enabled only while a cropped
\* image is loaded.
C28_OcrButtonNeedsImage ==
  (variant = "popup" /\ ~popBtnOCRDisabled) => imgDataUrl # NoImage

\* C29: in the popup the Copy button is enabled only while the text field
\* holds the non-empty text of a successful recognition; an error message is
\* never copyable.
C29_CopyNeedsRecognisedText ==
  (variant = "popup" /\ ~popBtnCopyDisabled) =>
    /\ ocrText # <<>>
    /\ Head(ocrText) # "OCR error: "
====
